---- MODULE Spec2Model ----
(***************************************************************************)
(* Model of the cntp automation: the AutomationManager (scheduler and the  *)
(* per-pair login/check state machine of node_handler/automationManager.js)*)
(* on top of the SQLite tables created by init_db.js, with the CNTP        *)
(* service and token plugin of cntp.js / tokenHandler.js; and the two      *)
(* stages of proxy_handler that fill the tables it reads: processProxies   *)
(* with its workers (main.js, worker.js) and processKeysAndProxies         *)
(* (assign_proxy.js).                                                      *)
(***************************************************************************)
EXTENDS Integers, Sequences, FiniteSets, TLC

\* ------------------------------------------------------------------ bounds
\* Number of rows of keys_proxies, i.e. of (key, proxy) pairs that run() lists.
NPairs == 2
\* Number of times run() is called, one call after the other.
MaxRuns == 2
\* Number of store statements that fail in one execution (SpecStoreErr).
MaxStoreErrs == 1
\* Granularity of the clock: how far one Tick advances it (milliseconds).
TickStep == 30000
\* Number of proxies in the longest proxy list file.
MaxProxies == 23
\* Number of probes of one processProxies call that do not answer 200.
MaxProbeFails == 1
\* Number of calls of processProxies when it is run alone.
MaxValidatorRuns == 2
\* Number of calls of processProxies and processKeysAndProxies, taken together.
MaxStageRuns == 4

\* ------------------------------------------------------- program constants
MAX_LOGIN_RETRIES == 2
STAGGER_DELAY == 45000
PROXY_CHUNK_SIZE == 10

\* ------------------------------------------------------------------- state
VARIABLES
  keys,             \* table keys: sequence of [id, the_key]
  keys_proxies,     \* table keys_proxies: sequence of [key_id, proxy]
  task_monitoring,  \* table task_monitoring: sequence of rows, in insertion order
  fail_tasks,       \* output/fail_tasks.json: the JSON array, a sequence of entries
  runPc,            \* where run() is: idle, loading, sleeping, awaiting, completed
  runs,             \* how many times run() has been called
  keyProxyPairs,    \* run()'s local keyProxyPairs
  launched,         \* how many pairs of keyProxyPairs the for loop has started
  clock,            \* milliseconds since run() was called
  wakeAt,           \* when the pending sleep(STAGGER_DELAY) timer is due
  unit,             \* unit[i]: the handleKeyProxyTask call of the i-th listed pair
  storeErrs,        \* how many store statements have failed so far
  filtered_proxies, \* table filtered_proxies: sequence of [proxy, success, fail]
  failed_proxies,   \* output/failed_proxies.txt: the proxies it lists, in order
  proxyFiles,       \* the proxy list files an operator may pass to processProxies
  keyFiles,         \* the key files an operator may pass to processKeysAndProxies
  pp,               \* the processProxies call and its workers
  pk,               \* the processKeysAndProxies call
  stageRunsLeft     \* how many more times the operator calls either of the two

\* What only proxy_handler reads and writes.
stageVars == <<filtered_proxies, failed_proxies, proxyFiles, keyFiles, pp, pk,
               stageRunsLeft>>

vars == <<keys, keys_proxies, task_monitoring, fail_tasks, runPc, runs,
          keyProxyPairs, launched, clock, wakeAt, unit, storeErrs, stageVars>>

\* What the AutomationManager never writes.
storeVars == <<keys, keys_proxies, storeErrs, stageVars>>
schedVars == <<runPc, runs, keyProxyPairs, launched, clock, wakeAt>>

Units == 1..NPairs

\* ---------------------------------------------------------- pure helpers
\* The key a proxy row belongs to: two proxies per key, so that rows of
\* task_monitoring that share key_id but differ in proxy occur.
KeyOf(i) == (i + 1) \div 2

\* Rows of task_monitoring WHERE key_id = ? AND proxy = ? AND service = 'cntp'.
MatchingRows(tm, keyId, proxy) ==
  LET Test(r) == r.key_id = keyId /\ r.proxy = proxy /\ r.service = "cntp"
  IN  SelectSeq(tm, Test)

\* db.get: the first matching row, or the marker "undefined" when there is none.
HasRow(tm, keyId, proxy) == Len(MatchingRows(tm, keyId, proxy)) > 0

FirstRow(tm, keyId, proxy) == Head(MatchingRows(tm, keyId, proxy))

\* ------------------------------------------- cntp.js: CNTPService (pure part)
\* Element texts are sequences of one-character strings.
Digits == {"0", "1", "2", "3", "4", "5", "6", "7", "8", "9"}

DigitVal(c) ==
  CASE c = "0" -> 0 [] c = "1" -> 1 [] c = "2" -> 2 [] c = "3" -> 3 [] c = "4" -> 4
    [] c = "5" -> 5 [] c = "6" -> 6 [] c = "7" -> 7 [] c = "8" -> 8 [] c = "9" -> 9

RECURSIVE DropSpaces(_)
DropSpaces(s) ==
  IF s # <<>> /\ Head(s) = " " THEN DropSpaces(Tail(s)) ELSE s

\* The longest prefix of s made of decimal digits.
RECURSIVE DigitRun(_)
DigitRun(s) ==
  IF s # <<>> /\ Head(s) \in Digits THEN <<Head(s)>> \o DigitRun(Tail(s)) ELSE <<>>

RECURSIVE Decimal(_)
Decimal(ds) ==
  IF ds = <<>> THEN 0
  ELSE 10 * Decimal(SubSeq(ds, 1, Len(ds) - 1)) + DigitVal(ds[Len(ds)])

\* JavaScript parseInt(string) in radix 10: leading white space is skipped, one
\* sign is read, then digits up to the first character that is not a digit;
\* NaN when no digit was read.
parseInt(s) ==
  LET t    == DropSpaces(s)
      sign == IF t # <<>> /\ Head(t) = "-" THEN -1 ELSE 1
      body == IF t # <<>> /\ Head(t) \in {"-", "+"} THEN Tail(t) ELSE t
      ds   == DigitRun(body)
  IN  IF ds = <<>> THEN [nan |-> TRUE, n |-> 0]
      ELSE [nan |-> FALSE, n |-> sign * Decimal(ds)]

\* What the browser can show a login call: the dashboard element is found
\* ("confirmed"), or some driver call or wait throws ("error").
LoginPages == {"confirmed", "error"}

\* CNTPService.login: true when the confirm element is found, false from the
\* catch block.
CNTPService_login(page) == page = "confirmed"

\* The texts the cntpValue element can carry.
ElementTexts ==
  { <<"3", "7">>, <<"0">>, <<"N", "/", "A">>, <<"3", "7", ".", "5">>, <<"7", "x">> }

\* What the browser can show a check call: the element with a text, no element
\* (getValueSafe catches and yields 'N/A'), or driver.get / sleep throws.
CheckPages ==
  [kind : {"text"}, text : ElementTexts]
    \cup {[kind |-> "missing", text |-> <<>>], [kind |-> "error", text |-> <<>>]}

NoPage == [kind |-> "none", text |-> <<>>]

\* The value of JavaScript's false among check results, and a number.
JsFalse == [isFalse |-> TRUE, n |-> 0]
JsNumber(n) == [isFalse |-> FALSE, n |-> n]

getValueSafe(page) ==
  IF page.kind = "missing" THEN <<"N", "/", "A">> ELSE page.text

\* CNTPService_check without the isNaN test: NaN reaches the caller, which the
\* strict comparison with false lets through, and the store keeps no number.
CNTPService_check_NaNIsFalse(page) ==
  IF page.kind = "error" THEN JsFalse
  ELSE LET point == parseInt(getValueSafe(page))
       IN  IF point.nan THEN JsFalse ELSE JsNumber(point.n)

\* CNTPService.check: parseInt of the element text with NaN replaced by 0, and
\* false from the catch block.
CNTPService_check(page) ==
  IF page.kind = "error" THEN JsFalse
  ELSE LET point == parseInt(getValueSafe(page))
       IN  JsNumber(IF point.nan THEN 0 ELSE point.n)

\* ------------------------------------------ tokenHandler.js: TokenPlugin
Services == {"cntp"}

\* TokenPlugin.login: the service's login, false for an unknown service or
\* when it throws.
TokenPlugin_login(service, page) ==
  IF service \notin Services THEN FALSE ELSE CNTPService_login(page)

\* TokenPlugin.check: the service's check, false for an unknown service or
\* when it throws.
TokenPlugin_check(service, page) ==
  IF service \notin Services THEN JsFalse ELSE CNTPService_check(page)

\* ------------------------------------------------ init_db.js: the tables
\* A task_monitoring row as initializeCNTPTask inserts it (the id is the row's
\* position; last_updated is not modelled).
PendingRow(keyId, proxy) ==
  [key_id |-> keyId, proxy |-> proxy, service |-> "cntp",
   state |-> "pending", retry_count |-> 0, point |-> 0]

\* UpdateRows with `point = ?` applied only when the new state is success.
UpdateRows_PointOnlyOnSuccess(tm, keyId, proxy, newState, point) ==
  [i \in 1..Len(tm) |->
     IF tm[i].key_id = keyId /\ tm[i].proxy = proxy /\ tm[i].service = "cntp"
     THEN [tm[i] EXCEPT !.state = newState,
                        !.point = IF newState = "success" THEN point ELSE @]
     ELSE tm[i]]

\* UpdateRows with `retry_count = retry_count + 1` in the SET list.
UpdateRows_CountsRetry(tm, keyId, proxy, newState, point) ==
  [i \in 1..Len(tm) |->
     IF tm[i].key_id = keyId /\ tm[i].proxy = proxy /\ tm[i].service = "cntp"
     THEN [tm[i] EXCEPT !.state = newState, !.point = point, !.retry_count = @ + 1]
     ELSE tm[i]]

\* UPDATE task_monitoring SET state = ?, point = ? WHERE key_id = ? AND proxy = ?
\* AND service = 'cntp': every matching row is written.
UpdateRows(tm, keyId, proxy, newState, point) ==
  [i \in 1..Len(tm) |->
     IF tm[i].key_id = keyId /\ tm[i].proxy = proxy /\ tm[i].service = "cntp"
     THEN [tm[i] EXCEPT !.state = newState, !.point = point]
     ELSE tm[i]]

\* SELECT k.id, k.the_key, kp.proxy FROM keys k JOIN keys_proxies kp
\* ON k.id = kp.key_id, in the order of keys_proxies.
RECURSIVE JoinRows(_, _)
JoinRows(ks, kps) ==
  IF kps = <<>> THEN <<>>
  ELSE LET kp  == Head(kps)
           Own(k) == k.id = kp.key_id
           own == SelectSeq(ks, Own)
       IN  [i \in 1..Len(own) |->
              [id |-> own[i].id, the_key |-> own[i].the_key, proxy |-> kp.proxy]]
           \o JoinRows(ks, Tail(kps))

\* --------------------------------------- automationManager.js: the units
\* A handleKeyProxyTask call that has not been made.
FreshUnit ==
  [pc            |-> "unstarted",
   state         |-> "unread",     \* the local `state`
   loginAttempts |-> 0,
   loginSuccess  |-> FALSE,
   driver        |-> FALSE,        \* whether `driver` holds a session
   newState      |-> "none",       \* arguments of the pending updateCNTPTaskState
   point         |-> 0,
   page          |-> NoPage,       \* what the check call was shown
   calls         |-> <<>>,         \* the calls made so far, in order
   startedAt     |-> 0,            \* clock when the call was made
   rowAtStart    |-> "none",       \* state of the pair's row when the call was made
   pointAtStart  |-> 0,
   logged        |-> FALSE,        \* run()'s catch logged "Task failed"
   prevFatal     |-> FALSE]        \* the pair's unit of the previous run hit the
                                   \* outer catch block

Pair(u) == keyProxyPairs[u]

PairRowState(tm, kp) ==
  IF HasRow(tm, kp.id, kp.proxy) THEN FirstRow(tm, kp.id, kp.proxy).state ELSE "none"

PairRowPoint(tm, kp) ==
  IF HasRow(tm, kp.id, kp.proxy) THEN FirstRow(tm, kp.id, kp.proxy).point ELSE 0

Called(u, what) == Append(unit[u].calls, what)

\* processProxies and processKeysAndProxies before they are called.
NoProcessProxies ==
  [pc              |-> "idle",
   proxyList       |-> <<>>,
   proxyChunks     |-> <<>>,
   workers         |-> <<>>,   \* one per chunk: [state, answers, results]
   combinedResults |-> <<>>,
   next            |-> 0,      \* position of the insert loop in combinedResults
   stale           |-> FALSE]  \* the DELETE removed a row of a proxy not in proxyList

NoProcessKeys ==
  [pc              |-> "idle",
   proxyList       |-> <<>>,
   keys            |-> <<>>,
   keysWithProxies |-> <<>>,
   next            |-> 0]      \* position of saveKeyProxyMappings' loop

\* The tables and files of proxy_handler after initDB, nothing having run.
StageAtRest ==
  /\ filtered_proxies = <<>>
  /\ failed_proxies = <<>>
  /\ pp = NoProcessProxies
  /\ pk = NoProcessKeys

Init ==
  /\ keys = [i \in 1..KeyOf(NPairs) |-> [id |-> i, the_key |-> i]]
  /\ keys_proxies = [i \in 1..NPairs |-> [key_id |-> KeyOf(i), proxy |-> i]]
  /\ task_monitoring = <<>>
  /\ fail_tasks = <<>>
  /\ runPc = "idle"
  /\ runs = 0
  /\ keyProxyPairs = <<>>
  /\ launched = 0
  /\ clock = 0
  /\ wakeAt = 0
  /\ unit = [u \in Units |-> FreshUnit]
  /\ storeErrs = 0
  /\ StageAtRest
  /\ proxyFiles = {}
  /\ keyFiles = {}
  /\ stageRunsLeft = 0

\* EnsureGet without the test of `existing`: the INSERT always follows.
EnsureGet_AlwaysInserts(u) ==
  /\ unit[u].pc = "ensure_get"
  /\ unit' = [unit EXCEPT ![u].pc = "ensure_insert"]
  /\ UNCHANGED <<storeVars, schedVars, task_monitoring, fail_tasks>>

\* initializeCNTPTask, up to the answer of its SELECT.
EnsureGet(u) ==
  /\ unit[u].pc = "ensure_get"
  /\ unit' = [unit EXCEPT ![u].pc =
       IF HasRow(task_monitoring, Pair(u).id, Pair(u).proxy)
       THEN "get_state" ELSE "ensure_insert"]
  /\ UNCHANGED <<storeVars, schedVars, task_monitoring, fail_tasks>>

\* initializeCNTPTask: no row was found, the INSERT.
EnsureInsert(u) ==
  /\ unit[u].pc = "ensure_insert"
  /\ task_monitoring' = Append(task_monitoring, PendingRow(Pair(u).id, Pair(u).proxy))
  /\ unit' = [unit EXCEPT ![u].pc = "get_state"]
  /\ UNCHANGED <<storeVars, schedVars, fail_tasks>>

\* AfterGetState with the skip test reading only `state === 'success'`.
AfterGetState_SkipsOnlySuccess(u, state) ==
  unit' = [unit EXCEPT ![u].state = state,
                       ![u].pc = IF state = "success" THEN "done" ELSE "init_driver",
                       ![u].loginAttempts = 0]

\* handleKeyProxyTask lines 86-93: a state that was read as success or failed
\* ends the unit; anything else (pending, or null) goes on to the attempt.
AfterGetState(u, state) ==
  unit' = [unit EXCEPT ![u].state = state,
                       ![u].pc = IF state \in {"success", "failed"}
                                 THEN "done" ELSE "init_driver",
                       ![u].loginAttempts = 0]

\* getCNTPTaskState: the state of the pair's row, null when there is none.
GetState(u) ==
  /\ unit[u].pc = "get_state"
  /\ AfterGetState(u, IF HasRow(task_monitoring, Pair(u).id, Pair(u).proxy)
                      THEN FirstRow(task_monitoring, Pair(u).id, Pair(u).proxy).state
                      ELSE "null")
  /\ UNCHANGED <<storeVars, schedVars, task_monitoring, fail_tasks>>

\* initializeDriver returns a session, or throws into the outer catch block
\* (proxy anonymisation, the browser build); `driver` then stays undefined.
InitDriver(u) ==
  /\ unit[u].pc = "init_driver"
  /\ \E built \in BOOLEAN :
       unit' = [unit EXCEPT ![u].driver = built,
                            ![u].loginSuccess = FALSE,
                            ![u].calls = Called(u, "initializeDriver"),
                            ![u].pc = IF built THEN "login" ELSE "fatal"]
  /\ UNCHANGED <<storeVars, schedVars, task_monitoring, fail_tasks>>

\* LoginStep with the loop test `loginAttempts <= MAX_LOGIN_RETRIES`.
LoginStep_OneTooMany(u, page) ==
  LET success  == TokenPlugin_login("cntp", page)
      attempts == IF success THEN unit[u].loginAttempts ELSE unit[u].loginAttempts + 1
      again    == ~success /\ attempts <= MAX_LOGIN_RETRIES
  IN  unit' = [unit EXCEPT
        ![u].loginSuccess = success,
        ![u].loginAttempts = attempts,
        ![u].calls = Called(u, "login"),
        ![u].newState = IF ~again /\ ~success THEN "failed" ELSE @,
        ![u].point = IF ~again /\ ~success THEN 0 ELSE @,
        ![u].pc = IF again THEN "login" ELSE IF success THEN "check" ELSE "update"]

\* LoginStep with a budget that remembers the previous run: a pair whose unit
\* crashed then has one attempt less now.
LoginStep_CrashCostsAnAttempt(u, page) ==
  LET success  == TokenPlugin_login("cntp", page)
      attempts == IF success THEN unit[u].loginAttempts ELSE unit[u].loginAttempts + 1
      budget   == IF unit[u].prevFatal THEN MAX_LOGIN_RETRIES - 1 ELSE MAX_LOGIN_RETRIES
      again    == ~success /\ attempts < budget
  IN  unit' = [unit EXCEPT
        ![u].loginSuccess = success,
        ![u].loginAttempts = attempts,
        ![u].calls = Called(u, "login"),
        ![u].newState = IF ~again /\ ~success THEN "failed" ELSE @,
        ![u].point = IF ~again /\ ~success THEN 0 ELSE @,
        ![u].pc = IF again THEN "login" ELSE IF success THEN "check" ELSE "update"]

\* LoginStep without the `if (!loginSuccess) ... return` of lines 112-117: the
\* check call is made also when every login call answered false.
LoginStep_ChecksAnyway(u, page) ==
  LET success  == TokenPlugin_login("cntp", page)
      attempts == IF success THEN unit[u].loginAttempts ELSE unit[u].loginAttempts + 1
      again    == ~success /\ attempts < MAX_LOGIN_RETRIES
  IN  unit' = [unit EXCEPT
        ![u].loginSuccess = success,
        ![u].loginAttempts = attempts,
        ![u].calls = Called(u, "login"),
        ![u].pc = IF again THEN "login" ELSE "check"]

\* One pass of the while loop of lines 100-110, and the test that follows it.
LoginStep(u, page) ==
  LET success  == TokenPlugin_login("cntp", page)
      attempts == IF success THEN unit[u].loginAttempts ELSE unit[u].loginAttempts + 1
      again    == ~success /\ attempts < MAX_LOGIN_RETRIES
  IN  unit' = [unit EXCEPT
        ![u].loginSuccess = success,
        ![u].loginAttempts = attempts,
        ![u].calls = Called(u, "login"),
        ![u].newState = IF ~again /\ ~success THEN "failed" ELSE @,
        ![u].point = IF ~again /\ ~success THEN 0 ELSE @,
        ![u].pc = IF again THEN "login" ELSE IF success THEN "check" ELSE "update"]

Login(u) ==
  /\ unit[u].pc = "login"
  /\ \E page \in LoginPages : LoginStep(u, page)
  /\ UNCHANGED <<storeVars, schedVars, task_monitoring, fail_tasks>>

\* CheckStep with the check call inside the retry loop's accounting: a login
\* that needed a retry is written as failed although the check answered.
CheckStep_RetryMeansFailed(u, page) ==
  LET checkResult == TokenPlugin_check("cntp", page)
      bad == checkResult.isFalse \/ unit[u].loginAttempts > 0
  IN  unit' = [unit EXCEPT
        ![u].page = page,
        ![u].calls = Called(u, "check"),
        ![u].newState = IF bad THEN "failed" ELSE "success",
        ![u].point = IF bad THEN 0 ELSE checkResult.n,
        ![u].pc = "update"]

\* Lines 120-129: the check call and the choice of the state to write.
CheckStep(u, page) ==
  LET checkResult == TokenPlugin_check("cntp", page)
  IN  unit' = [unit EXCEPT
        ![u].page = page,
        ![u].calls = Called(u, "check"),
        ![u].newState = IF checkResult.isFalse THEN "failed" ELSE "success",
        ![u].point = IF checkResult.isFalse THEN 0 ELSE checkResult.n,
        ![u].pc = "update"]

Check(u) ==
  /\ unit[u].pc = "check"
  /\ \E page \in CheckPages : CheckStep(u, page)
  /\ UNCHANGED <<storeVars, schedVars, task_monitoring, fail_tasks>>

\* What follows `await this.updateCNTPTaskState(...)`: logFailedTask after a
\* write of failed, the finally block after a write of success.
AfterUpdate(u) ==
  unit' = [unit EXCEPT ![u].calls = Called(u, "update"),
                       ![u].pc = IF unit[u].newState = "failed"
                                 THEN "log_failed" ELSE "finally"]

\* updateCNTPTaskState: the UPDATE.
Update(u) ==
  /\ unit[u].pc = "update"
  /\ task_monitoring' = UpdateRows(task_monitoring, Pair(u).id, Pair(u).proxy,
                                   unit[u].newState, unit[u].point)
  /\ AfterUpdate(u)
  /\ UNCHANGED <<storeVars, schedVars, fail_tasks>>

\* LogFailedTask with tabReset after the try statement instead of in a finally
\* block: the `return` of line 116 leaves without it.
LogFailedTask_ReturnSkipsReset(u) ==
  /\ unit[u].pc = "log_failed"
  /\ fail_tasks' = Append(fail_tasks,
       [key |-> Pair(u).the_key, proxy |-> Pair(u).proxy, service |-> "cntp",
        timestamp |-> runs])
  /\ unit' = [unit EXCEPT ![u].calls = Called(u, "logFailedTask"),
                          ![u].pc = IF unit[u].loginSuccess THEN "finally" ELSE "done"]
  /\ UNCHANGED <<storeVars, schedVars, task_monitoring>>

\* LogFailedTask with an asynchronous read: the array that is pushed to and
\* written back was read before other units wrote theirs.
LogFailedTask_StaleRead(u) ==
  /\ unit[u].pc = "log_failed"
  /\ \E read \in 0..Len(fail_tasks) :
       fail_tasks' = Append(SubSeq(fail_tasks, 1, read),
         [key |-> Pair(u).the_key, proxy |-> Pair(u).proxy, service |-> "cntp",
          timestamp |-> runs])
  /\ unit' = [unit EXCEPT ![u].calls = Called(u, "logFailedTask"),
                          ![u].pc = "finally"]
  /\ UNCHANGED <<storeVars, schedVars, task_monitoring>>

\* logFailedTask: read the array, push the entry, write the array (synchronous;
\* the file is taken to be readable and writable).  The entry's timestamp is
\* kept as the number of the run that wrote it.
LogFailedTask(u) ==
  /\ unit[u].pc = "log_failed"
  /\ fail_tasks' = Append(fail_tasks,
       [key |-> Pair(u).the_key, proxy |-> Pair(u).proxy, service |-> "cntp",
        timestamp |-> runs])
  /\ unit' = [unit EXCEPT ![u].calls = Called(u, "logFailedTask"),
                          ![u].pc = "finally"]
  /\ UNCHANGED <<storeVars, schedVars, task_monitoring>>

\* Fatal with a catch block that also marks the task failed.
Fatal_MarksFailed(u) ==
  /\ unit[u].pc = "fatal"
  /\ task_monitoring' = UpdateRows(task_monitoring, Pair(u).id, Pair(u).proxy,
                                   "failed", 0)
  /\ unit' = [unit EXCEPT ![u].calls = Called(u, "handleCleanup"),
                          ![u].pc = "finally"]
  /\ UNCHANGED <<storeVars, schedVars, fail_tasks>>

\* The outer catch block: log, handleCleanup(profilePath).
Fatal(u) ==
  /\ unit[u].pc = "fatal"
  /\ unit' = [unit EXCEPT ![u].calls = Called(u, "handleCleanup"),
                          ![u].pc = "finally"]
  /\ UNCHANGED <<storeVars, schedVars, task_monitoring, fail_tasks>>

\* tabReset(driver) of automationHelpers.js: it returns, or it throws.
TabResetOutcomes(driver) == {"returns", "throws"}

\* The finally block: await tabReset(driver). When it throws, the promise of
\* handleKeyProxyTask rejects.
Finally(u) ==
  /\ unit[u].pc = "finally"
  /\ \E outcome \in TabResetOutcomes(unit[u].driver) :
       unit' = [unit EXCEPT ![u].calls = Called(u, "tabReset"),
                            ![u].pc = IF outcome = "returns" THEN "done" ELSE "rejected"]
  /\ UNCHANGED <<storeVars, schedVars, task_monitoring, fail_tasks>>

\* CatchTask without the .catch: the rejection reaches Promise.all, run()'s
\* own catch block logs "[SYSTEM ERROR]" and run() returns.
CatchTask_Unhandled(u) ==
  /\ unit[u].pc = "rejected"
  /\ unit' = [unit EXCEPT ![u].pc = "done"]
  /\ runPc' = "system_error"
  /\ UNCHANGED <<storeVars, task_monitoring, fail_tasks, runs, keyProxyPairs,
                 launched, clock, wakeAt>>

\* run() line 58: .catch(e => logger.error(`Task failed: ...`)) turns the
\* rejection into a fulfilled promise.
CatchTask(u) ==
  /\ unit[u].pc = "rejected"
  /\ unit' = [unit EXCEPT ![u].logged = TRUE, ![u].pc = "done"]
  /\ UNCHANGED <<storeVars, schedVars, task_monitoring, fail_tasks>>

UnitStep(u) ==
  \/ EnsureGet(u)
  \/ EnsureInsert(u)
  \/ GetState(u)
  \/ InitDriver(u)
  \/ Login(u)
  \/ Check(u)
  \/ Update(u)
  \/ LogFailedTask(u)
  \/ Fatal(u)
  \/ Finally(u)
  \/ CatchTask(u)

\* ------------------------------------- automationManager.js: the scheduler
\* sleep that resolves at once (setTimeout(resolve) without the delay).
sleep_NoDelay(ms) == clock

\* sleep(ms): the time at which the timer set now is due.
sleep(ms) == clock + ms

\* The call handleKeyProxyTask(kp) for the i-th listed pair, up to its first await.
Launch(us, pairs, i) ==
  [us EXCEPT ![i].pc = "ensure_get",
             ![i].startedAt = clock,
             ![i].rowAtStart = PairRowState(task_monitoring, pairs[i]),
             ![i].pointAtStart = PairRowPoint(task_monitoring, pairs[i])]

\* One turn of the for loop of lines 55-62: start the next pair's unit and
\* sleep; after the last pair, Promise.all.
LoopTurn(pairs) ==
  IF launched < Len(pairs)
  THEN /\ unit' = Launch(unit, pairs, launched + 1)
       /\ launched' = launched + 1
       /\ wakeAt' = sleep(STAGGER_DELAY)
       /\ runPc' = "sleeping"
  ELSE /\ runPc' = "awaiting"
       /\ UNCHANGED <<unit, launched, wakeAt>>

\* A call of run(): the previous call has returned.
RunStart ==
  /\ runPc \in {"idle", "completed"}
  /\ runs < MaxRuns
  /\ runs' = runs + 1
  /\ runPc' = "loading"
  /\ keyProxyPairs' = <<>>
  /\ launched' = 0
  /\ clock' = 0
  /\ wakeAt' = 0
  /\ unit' = [u \in Units |->
               [FreshUnit EXCEPT !.prevFatal =
                  \E i \in 1..Len(unit[u].calls) : unit[u].calls[i] = "handleCleanup"]]
  /\ UNCHANGED <<storeVars, task_monitoring, fail_tasks>>

\* loadKeyProxyData answers, and the loop starts the first unit.
LoadKeyProxyData ==
  /\ runPc = "loading"
  /\ keyProxyPairs' = JoinRows(keys, keys_proxies)
  /\ LoopTurn(keyProxyPairs')
  /\ UNCHANGED <<storeVars, task_monitoring, fail_tasks, runs, clock>>

\* Time passes while the sleep timer is pending.
Tick ==
  /\ runPc = "sleeping"
  /\ clock < wakeAt
  /\ clock' = clock + TickStep
  /\ UNCHANGED <<storeVars, task_monitoring, fail_tasks, runPc, runs,
                 keyProxyPairs, launched, wakeAt, unit>>

\* TimerFires with `await this.handleKeyProxyTask(kp)` in the loop: the next
\* turn waits for the units started so far.
TimerFires_AwaitsPrevious ==
  /\ runPc = "sleeping"
  /\ clock >= wakeAt
  /\ \A u \in 1..launched : unit[u].pc = "done"
  /\ LoopTurn(keyProxyPairs)
  /\ UNCHANGED <<storeVars, task_monitoring, fail_tasks, runs, keyProxyPairs, clock>>

\* The sleep timer fires: the loop goes on.
TimerFires ==
  /\ runPc = "sleeping"
  /\ clock >= wakeAt
  /\ LoopTurn(keyProxyPairs)
  /\ UNCHANGED <<storeVars, task_monitoring, fail_tasks, runs, keyProxyPairs, clock>>

\* Promise.all(taskPromises) fulfils: every started unit's promise is settled
\* as fulfilled; run() logs "All cntp automation tasks completed".
AllTasksCompleted ==
  /\ runPc = "awaiting"
  /\ \A u \in 1..launched : unit[u].pc = "done"
  /\ runPc' = "completed"
  /\ UNCHANGED <<storeVars, task_monitoring, fail_tasks, runs, keyProxyPairs,
                 launched, clock, wakeAt, unit>>

SchedulerStep ==
  \/ RunStart
  \/ LoadKeyProxyData
  \/ TimerFires
  \/ AllTasksCompleted

Next ==
  \/ SchedulerStep
  \/ Tick
  \/ \E u \in Units : UnitStep(u)

\* The program with a store whose statements succeed.
Spec == Init /\ [][Next]_vars

\* ------------------------------------------------- store statements that fail
\* A store statement fails: sqlite rejects it, or getDB does.
StatementFails ==
  /\ storeErrs < MaxStoreErrs
  /\ storeErrs' = storeErrs + 1
  /\ UNCHANGED <<keys, keys_proxies, stageVars, schedVars, task_monitoring, fail_tasks>>

\* initializeCNTPTask: getDB or the SELECT throws; the catch block logs.
EnsureGetErr(u) ==
  /\ unit[u].pc = "ensure_get"
  /\ unit' = [unit EXCEPT ![u].pc = "get_state"]
  /\ StatementFails

\* EnsureInsertErr without the try/catch of initializeCNTPTask: the error of
\* the INSERT leaves handleKeyProxyTask as a rejection.
EnsureInsertErr_Throws(u) ==
  /\ unit[u].pc = "ensure_insert"
  /\ unit' = [unit EXCEPT ![u].pc = "rejected"]
  /\ StatementFails

\* initializeCNTPTask: the INSERT throws; the catch block logs.
EnsureInsertErr(u) ==
  /\ unit[u].pc = "ensure_insert"
  /\ unit' = [unit EXCEPT ![u].pc = "get_state"]
  /\ StatementFails

\* getCNTPTaskState: the SELECT throws; the catch block returns null.
GetStateErr(u) ==
  /\ unit[u].pc = "get_state"
  /\ AfterGetState(u, "null")
  /\ StatementFails

\* updateCNTPTaskState: the UPDATE throws; the catch block logs.
UpdateErr(u) ==
  /\ unit[u].pc = "update"
  /\ AfterUpdate(u)
  /\ StatementFails

StoreErrStep(u) ==
  \/ EnsureGetErr(u)
  \/ EnsureInsertErr(u)
  \/ GetStateErr(u)
  \/ UpdateErr(u)

NextStoreErr ==
  \/ Next
  \/ \E u \in Units : StoreErrStep(u)

\* The program with a store whose statements may fail.
SpecStoreErr == Init /\ [][NextStoreErr]_vars

\* ----------------------------------------------- proxy_handler/worker.js
\* What request() hands to its callback: an error, or a response with a status.
OK200 == [error |-> FALSE, statusCode |-> 200]

FailedProbes ==
  {[error |-> FALSE, statusCode |-> 204],
   [error |-> FALSE, statusCode |-> 404],
   [error |-> TRUE,  statusCode |-> 0]}

\* testProxy with the test `statusCode < 200 || statusCode >= 300`.
testProxy_Any2xx(proxyUrl, answer) ==
  LET rejected == answer.error \/ answer.statusCode < 200 \/ answer.statusCode >= 300
  IN  [proxy   |-> proxyUrl,
       success |-> IF rejected THEN <<>> ELSE <<"cntp">>,
       fail    |-> IF rejected THEN <<"cntp">> ELSE <<>>]

\* testProxy: one request; the promise rejects on an error or a status other
\* than 200, and the catch block pushes the tag to fail instead of success.
testProxy(proxyUrl, answer) ==
  LET rejected == answer.error \/ answer.statusCode # 200
  IN  [proxy   |-> proxyUrl,
       success |-> IF rejected THEN <<>> ELSE <<"cntp">>,
       fail    |-> IF rejected THEN <<"cntp">> ELSE <<>>]

\* The worker's message handler: Promise.all over testProxy of each proxy.
WorkerResults(proxies, answers) ==
  [i \in 1..Len(proxies) |-> testProxy(proxies[i], answers[i])]

\* The answers n probes may get when at most `budget` of them are not 200.
RECURSIVE UpTo(_, _)
UpTo(n, budget) ==
  IF budget <= 0 THEN {{}}
  ELSE LET fewer == UpTo(n, budget - 1)
       IN  fewer \cup {S \cup {i} : S \in fewer, i \in 1..n}

AnswerVectors(n, budget) ==
  {[i \in 1..n |-> IF i \in F THEN g ELSE OK200] :
     F \in UpTo(n, budget), g \in FailedProbes}

\* --------------------------------- proxy_handler/main.js: processProxies
\* A file is a sequence of lines; a proxy is a positive number and 0 is a
\* blank line.  split, trim, filter(Boolean): the lines that are not blank.
ReadProxyLines(file) ==
  LET NotBlank(line) == line # 0
  IN  SelectSeq(file, NotBlank)

\* chunkArray with the loop `i += chunkSize + 1`.
RECURSIVE chunkArray_SkipsOne(_, _)
chunkArray_SkipsOne(arr, chunkSize) ==
  IF arr = <<>> THEN <<>>
  ELSE <<SubSeq(arr, 1, IF Len(arr) < chunkSize THEN Len(arr) ELSE chunkSize)>>
       \o chunkArray_SkipsOne(SubSeq(arr, chunkSize + 2, Len(arr)), chunkSize)

\* chunkArray: slices arr.slice(i, i + chunkSize) for i = 0, chunkSize, ...
RECURSIVE chunkArray(_, _)
chunkArray(arr, chunkSize) ==
  IF arr = <<>> THEN <<>>
  ELSE <<SubSeq(arr, 1, IF Len(arr) < chunkSize THEN Len(arr) ELSE chunkSize)>>
       \o chunkArray(SubSeq(arr, chunkSize + 1, Len(arr)), chunkSize)

\* allResults.flat()
RECURSIVE Flat(_)
Flat(arrays) ==
  IF arrays = <<>> THEN <<>> ELSE Head(arrays) \o Flat(Tail(arrays))

\* JSON.stringify and JSON.parse of a tag list.
JSON_stringify(tags) ==
  IF tags = <<>> THEN "[]" ELSE IF tags = <<"cntp">> THEN "[\"cntp\"]" ELSE "?"

JSON_parse(text) ==
  IF text = "[]" THEN <<>> ELSE IF text = "[\"cntp\"]" THEN <<"cntp">> ELSE <<"?">>

\* InsertOrReplace that appends without regard to the UNIQUE proxy column.
InsertOrReplace_Appends(fp, row) == Append(fp, row)

\* INSERT OR REPLACE INTO filtered_proxies: proxy is UNIQUE, so a row with the
\* same proxy is deleted before the new row is added.
InsertOrReplace(fp, row) ==
  LET Other(r) == r.proxy # row.proxy
  IN  Append(SelectSeq(fp, Other), row)

\* What the AutomationManager owns.
managerVars == <<task_monitoring, fail_tasks, schedVars, unit>>

\* Neither stage is running: they are run one after the other.
StageFree ==
  /\ pp.pc \in {"idle", "saved", "aborted"}
  /\ pk.pc \in {"idle", "done", "aborted"}
  /\ stageRunsLeft > 0

\* ProcessProxiesStart with the DELETE moved to the start of the call.
ProcessProxiesStart_DeletesFirst ==
  /\ StageFree
  /\ stageRunsLeft' = stageRunsLeft - 1
  /\ filtered_proxies' = <<>>
  /\ \E inputFile \in proxyFiles :
       LET proxyList   == ReadProxyLines(inputFile)
           proxyChunks == chunkArray(proxyList, PROXY_CHUNK_SIZE)
       IN  pp' = [pc              |-> "waiting",
                  proxyList       |-> proxyList,
                  proxyChunks     |-> proxyChunks,
                  workers         |-> [w \in 1..Len(proxyChunks) |->
                                         [state |-> "running", answers |-> <<>>,
                                          results |-> <<>>]],
                  combinedResults |-> <<>>,
                  next            |-> 0,
                  stale           |-> FALSE]
  /\ UNCHANGED <<managerVars, keys, keys_proxies, storeErrs,
                 failed_proxies, proxyFiles, keyFiles, pk>>

\* A call of processProxies, lines 199-219: read the file, split it into
\* chunks, start one worker per chunk and post its chunk to it.
ProcessProxiesStart ==
  /\ StageFree
  /\ stageRunsLeft' = stageRunsLeft - 1
  /\ \E inputFile \in proxyFiles :
       LET proxyList   == ReadProxyLines(inputFile)
           proxyChunks == chunkArray(proxyList, PROXY_CHUNK_SIZE)
       IN  pp' = [pc              |-> "waiting",
                  proxyList       |-> proxyList,
                  proxyChunks     |-> proxyChunks,
                  workers         |-> [w \in 1..Len(proxyChunks) |->
                                         [state |-> "running", answers |-> <<>>,
                                          results |-> <<>>]],
                  combinedResults |-> <<>>,
                  next            |-> 0,
                  stale           |-> FALSE]
  /\ UNCHANGED <<managerVars, keys, keys_proxies, storeErrs, filtered_proxies,
                 failed_proxies, proxyFiles, keyFiles, pk>>

\* Probes of this call that have not answered 200.
ProbeFails ==
  LET Bad(w) == {i \in 1..Len(pp.workers[w].answers) : pp.workers[w].answers[i] # OK200}
      RECURSIVE Sum(_)
      Sum(w) == IF w = 0 THEN 0 ELSE Cardinality(Bad(w)) + Sum(w - 1)
  IN  Sum(Len(pp.workers))

\* Worker w has probed its chunk and posts the results; processWithWorker's
\* message handler resolves the chunk's promise.
WorkerMessage(w) ==
  /\ pp.pc = "waiting"
  /\ pp.workers[w].state = "running"
  /\ \E answers \in AnswerVectors(Len(pp.proxyChunks[w]), MaxProbeFails - ProbeFails) :
       pp' = [pp EXCEPT !.workers[w] =
                [state   |-> "replied",
                 answers |-> answers,
                 results |-> WorkerResults(pp.proxyChunks[w], answers)]]
  /\ UNCHANGED <<managerVars, keys, keys_proxies, storeErrs, filtered_proxies,
                 failed_proxies, proxyFiles, keyFiles, pk, stageRunsLeft>>

\* Worker w raises an error, or could not be started: the chunk's promise
\* rejects, Promise.all rejects and the catch block of processProxies logs.
\* What the other workers post afterwards resolves promises nobody awaits.
WorkerError(w) ==
  /\ pp.pc = "waiting"
  /\ pp.workers[w].state = "running"
  /\ pp' = [pp EXCEPT !.workers[w].state = "errored", !.pc = "aborted"]
  /\ UNCHANGED <<managerVars, keys, keys_proxies, storeErrs, filtered_proxies,
                 failed_proxies, proxyFiles, keyFiles, pk, stageRunsLeft>>

\* Promise.all fulfils, lines 219-226: flatten the results and open the store.
AllWorkersCompleted ==
  /\ pp.pc = "waiting"
  /\ \A w \in 1..Len(pp.workers) : pp.workers[w].state = "replied"
  /\ pp' = [pp EXCEPT
       !.combinedResults = Flat([w \in 1..Len(pp.workers) |-> pp.workers[w].results]),
       !.pc = "delete"]
  /\ UNCHANGED <<managerVars, keys, keys_proxies, storeErrs, filtered_proxies,
                 failed_proxies, proxyFiles, keyFiles, pk, stageRunsLeft>>

\* Line 229: DELETE FROM filtered_proxies; with no result to insert, db.close.
DeleteRows ==
  /\ pp.pc = "delete"
  /\ filtered_proxies' = <<>>
  /\ pp' = [pp EXCEPT !.next = 1,
                      !.stale = \E i \in 1..Len(filtered_proxies) :
                                  \A j \in 1..Len(pp.proxyList) :
                                    pp.proxyList[j] # filtered_proxies[i].proxy,
                      !.pc = IF pp.combinedResults = <<>> THEN "saved" ELSE "insert"]
  /\ UNCHANGED <<managerVars, keys, keys_proxies, storeErrs, failed_proxies,
                 proxyFiles, keyFiles, pk, stageRunsLeft>>

\* One turn of the loop of lines 232-245; after the last one, db.close.
InsertResult ==
  /\ pp.pc = "insert"
  /\ LET result == pp.combinedResults[pp.next]
     IN  filtered_proxies' = InsertOrReplace(filtered_proxies,
           [proxy   |-> result.proxy,
            success |-> JSON_stringify(result.success),
            fail    |-> JSON_stringify(result.fail)])
  /\ pp' = [pp EXCEPT !.next = @ + 1,
                      !.pc = IF pp.next = Len(pp.combinedResults) THEN "saved" ELSE "insert"]
  /\ UNCHANGED <<managerVars, keys, keys_proxies, storeErrs, failed_proxies,
                 proxyFiles, keyFiles, pk, stageRunsLeft>>

\* initDB, the DELETE or an INSERT throws: the catch block of processProxies
\* logs, and what was written so far stays.
ProcessProxiesStoreErr ==
  /\ pp.pc \in {"delete", "insert"}
  /\ storeErrs < MaxStoreErrs
  /\ storeErrs' = storeErrs + 1
  /\ pp' = [pp EXCEPT !.pc = "aborted"]
  /\ UNCHANGED <<managerVars, keys, keys_proxies, filtered_proxies, failed_proxies,
                 proxyFiles, keyFiles, pk, stageRunsLeft>>

\* ------------------- proxy_handler/assign_proxy.js: processKeysAndProxies
\* getFilteredProxiesFromDB: the rows with their tag lists parsed.
getFilteredProxiesFromDB(fp) ==
  [i \in 1..Len(fp) |->
     [proxy   |-> fp[i].proxy,
      success |-> JSON_parse(IF fp[i].success = "" THEN "[]" ELSE fp[i].success),
      fail    |-> JSON_parse(IF fp[i].fail = "" THEN "[]" ELSE fp[i].fail)]]

\* readKeysFromFile: a file is a sequence of lines, "" a blank one; the lines
\* that are not blank, each as {key}.
readKeysFromFile(file) ==
  LET NotBlank(line) == line # ""
      lines == SelectSeq(file, NotBlank)
  IN  [i \in 1..Len(lines) |-> [key |-> lines[i]]]

\* assignProxiesToKeys whose splice leaves the proxy in the list when it is the
\* last one, so that later keys get it too.
RECURSIVE assignProxiesToKeys_ReusesLast(_, _)
assignProxiesToKeys_ReusesLast(ks, availableProxies) ==
  IF ks = <<>> THEN <<>>
  ELSE LET assignedProxies ==
             SubSeq(availableProxies, 1, IF availableProxies = <<>> THEN 0 ELSE 1)
       IN  <<[key     |-> Head(ks).key,
              proxies |-> [i \in 1..Len(assignedProxies) |->
                             [proxy |-> assignedProxies[i].proxy]]]>>
           \o assignProxiesToKeys_ReusesLast(Tail(ks),
                IF Len(availableProxies) > 1
                THEN SubSeq(availableProxies, 2, Len(availableProxies))
                ELSE availableProxies)

\* assignProxiesToKeys that first drops the candidates with a fail tag.
RECURSIVE assignProxiesToKeys_SkipsFailed(_, _)
assignProxiesToKeys_SkipsFailed(ks, availableProxies) ==
  IF ks = <<>> THEN <<>>
  ELSE LET Clean(p) == Len(p.fail) = 0
           usable == SelectSeq(availableProxies, Clean)
           assignedProxies == SubSeq(usable, 1, IF usable = <<>> THEN 0 ELSE 1)
       IN  <<[key     |-> Head(ks).key,
              proxies |-> [i \in 1..Len(assignedProxies) |->
                             [proxy |-> assignedProxies[i].proxy]]]>>
           \o assignProxiesToKeys_SkipsFailed(Tail(ks), SubSeq(usable, 2, Len(usable)))

\* assignProxiesToKeys: each key in turn takes availableProxies.splice(0, 1),
\* the first proxy still available, or nothing when none is left.
RECURSIVE assignProxiesToKeys(_, _)
assignProxiesToKeys(ks, availableProxies) ==
  IF ks = <<>> THEN <<>>
  ELSE LET assignedProxies ==
             SubSeq(availableProxies, 1, IF availableProxies = <<>> THEN 0 ELSE 1)
       IN  <<[key     |-> Head(ks).key,
              proxies |-> [i \in 1..Len(assignedProxies) |->
                             [proxy |-> assignedProxies[i].proxy]]]>>
           \o assignProxiesToKeys(Tail(ks),
                SubSeq(availableProxies, 2, Len(availableProxies)))

\* INSERT OR IGNORE INTO keys (the_key): the_key is UNIQUE, id is the rowid.
InsertOrIgnoreKey(ks, theKey) ==
  IF \E i \in 1..Len(ks) : ks[i].the_key = theKey
  THEN ks
  ELSE Append(ks, [id |-> Len(ks) + 1, the_key |-> theKey])

\* KeyId read as the rowid of the last inserted row (lastID of the INSERT OR
\* IGNORE) instead of by the SELECT.
KeyId_LastRow(ks, theKey) == ks[Len(ks)].id

\* SELECT id FROM keys WHERE the_key = ?
KeyId(ks, theKey) ==
  LET Own(k) == k.the_key = theKey
  IN  Head(SelectSeq(ks, Own)).id

\* InsertOrIgnoreBinding as INSERT OR REPLACE: the proxy's row is rewritten
\* with the new key_id.
InsertOrIgnoreBinding_Replaces(kps, keyId, proxy) ==
  LET Other(r) == r.proxy # proxy
  IN  Append(SelectSeq(kps, Other), [key_id |-> keyId, proxy |-> proxy])

\* INSERT OR IGNORE INTO keys_proxies (key_id, proxy): proxy is UNIQUE.
InsertOrIgnoreBinding(kps, keyId, proxy) ==
  IF \E i \in 1..Len(kps) : kps[i].proxy = proxy
  THEN kps
  ELSE Append(kps, [key_id |-> keyId, proxy |-> proxy])

\* The loop of lines 82-88 over one key's proxies.
RECURSIVE InsertBindings(_, _, _)
InsertBindings(kps, keyId, proxies) ==
  IF proxies = <<>> THEN kps
  ELSE InsertBindings(InsertOrIgnoreBinding(kps, keyId, Head(proxies).proxy),
                      keyId, Tail(proxies))

\* A call of processKeysAndProxies, lines 114-121: read the candidates and the
\* keys, and assign.
ProcessKeysStart ==
  /\ StageFree
  /\ stageRunsLeft' = stageRunsLeft - 1
  /\ \E keyFilePath \in keyFiles :
       LET proxyList       == getFilteredProxiesFromDB(filtered_proxies)
           ks              == readKeysFromFile(keyFilePath)
           keysWithProxies == assignProxiesToKeys(ks, proxyList)
       IN  pk' = [pc              |-> IF keysWithProxies = <<>> THEN "report" ELSE "saving",
                  proxyList       |-> proxyList,
                  keys            |-> ks,
                  keysWithProxies |-> keysWithProxies,
                  next            |-> 1]
  /\ UNCHANGED <<managerVars, keys, keys_proxies, storeErrs, filtered_proxies,
                 failed_proxies, proxyFiles, keyFiles, pp>>

\* saveKeyProxyMappings, one turn of the loop of lines 68-89: the key, its id,
\* its proxies.
SaveMapping ==
  /\ pk.pc = "saving"
  /\ LET k == pk.keysWithProxies[pk.next]
     IN  /\ keys' = InsertOrIgnoreKey(keys, k.key)
         /\ keys_proxies' = InsertBindings(keys_proxies, KeyId(keys', k.key), k.proxies)
  /\ pk' = [pk EXCEPT !.next = @ + 1,
                      !.pc = IF pk.next = Len(pk.keysWithProxies) THEN "report" ELSE "saving"]
  /\ UNCHANGED <<managerVars, storeErrs, filtered_proxies, failed_proxies,
                 proxyFiles, keyFiles, pp, stageRunsLeft>>

\* A statement of the turn throws, the INSERT of the key or one after it: the
\* catch block of processKeysAndProxies logs; no failed-proxy report is written.
SaveMappingErr ==
  /\ pk.pc = "saving"
  /\ storeErrs < MaxStoreErrs
  /\ storeErrs' = storeErrs + 1
  /\ \E keyInserted \in BOOLEAN :
       keys' = IF keyInserted
               THEN InsertOrIgnoreKey(keys, pk.keysWithProxies[pk.next].key)
               ELSE keys
  /\ pk' = [pk EXCEPT !.pc = "aborted"]
  /\ UNCHANGED <<managerVars, keys_proxies, filtered_proxies, failed_proxies,
                 proxyFiles, keyFiles, pp, stageRunsLeft>>

\* saveFailedProxies, then db.close: the candidates with a fail tag, in order.
SaveFailedProxies ==
  /\ pk.pc = "report"
  /\ LET Failed(p) == Len(p.fail) > 0
         failedProxies == SelectSeq(pk.proxyList, Failed)
     IN  failed_proxies' = [i \in 1..Len(failedProxies) |-> failedProxies[i].proxy]
  /\ pk' = [pk EXCEPT !.pc = "done"]
  /\ UNCHANGED <<managerVars, keys, keys_proxies, storeErrs, filtered_proxies,
                 proxyFiles, keyFiles, pp, stageRunsLeft>>

\* ------------------------------------------------ proxy_handler: the runs
\* A proxy list file of n proxies that cycle through 1..d, with a blank line
\* after the first proxy and at the end.
ProxyFile(n, d) ==
  LET proxies == [i \in 1..n |-> ((i - 1) % d) + 1]
  IN  IF n = 0 THEN <<0>>
      ELSE <<proxies[1], 0>> \o SubSeq(proxies, 2, n) \o <<0>>

\* The validator alone, on lists of up to MaxProxies proxies: none, fewer than
\* a chunk, whole chunks, whole chunks and a rest; all different, or repeating.
ValidatorFiles ==
  {ProxyFile(n, d) :
     n \in {0, 2, PROXY_CHUNK_SIZE, 2 * PROXY_CHUNK_SIZE, MaxProxies},
     d \in {2, MaxProxies}}

InitValidator ==
  /\ keys = <<>>
  /\ keys_proxies = <<>>
  /\ task_monitoring = <<>>
  /\ fail_tasks = <<>>
  /\ runPc = "idle"
  /\ runs = 0
  /\ keyProxyPairs = <<>>
  /\ launched = 0
  /\ clock = 0
  /\ wakeAt = 0
  /\ unit = [u \in Units |-> FreshUnit]
  /\ storeErrs = 0
  /\ StageAtRest
  /\ proxyFiles = ValidatorFiles
  /\ keyFiles = {}
  /\ stageRunsLeft = MaxValidatorRuns

NextValidator ==
  \/ ProcessProxiesStart
  \/ \E w \in 1..Len(pp.workers) : WorkerMessage(w)
  \/ \E w \in 1..Len(pp.workers) : WorkerError(w)
  \/ AllWorkersCompleted
  \/ DeleteRows
  \/ InsertResult
  \/ ProcessProxiesStoreErr

\* processProxies, run again and again on the operator's files.
SpecValidator == InitValidator /\ [][NextValidator]_vars

\* Worker w stops without posting a message and without an 'error' event
\* (process.exit in the thread, or the thread being ended from outside):
\* worker_threads emits 'exit' only, for which processWithWorker registers no
\* handler, so the chunk's promise stays pending.
WorkerExit(w) ==
  /\ pp.pc = "waiting"
  /\ pp.workers[w].state = "running"
  /\ pp' = [pp EXCEPT !.workers[w].state = "exited"]
  /\ UNCHANGED <<managerVars, keys, keys_proxies, storeErrs, filtered_proxies,
                 failed_proxies, proxyFiles, keyFiles, pk, stageRunsLeft>>

\* The three ways in which a worker stops.
WorkerStops(w) ==
  /\ w \in 1..Len(pp.workers)
  /\ (WorkerMessage(w) \/ WorkerError(w) \/ WorkerExit(w))

\* The validator on a list shorter than a chunk and on one of two chunks.
PoolFiles ==
  {ProxyFile(n, MaxProxies) : n \in {2, 2 * PROXY_CHUNK_SIZE}}

InitPool ==
  /\ keys = <<>>
  /\ keys_proxies = <<>>
  /\ task_monitoring = <<>>
  /\ fail_tasks = <<>>
  /\ runPc = "idle"
  /\ runs = 0
  /\ keyProxyPairs = <<>>
  /\ launched = 0
  /\ clock = 0
  /\ wakeAt = 0
  /\ unit = [u \in Units |-> FreshUnit]
  /\ storeErrs = 0
  /\ StageAtRest
  /\ proxyFiles = PoolFiles
  /\ keyFiles = {}
  /\ stageRunsLeft = MaxValidatorRuns

NextPool ==
  \/ NextValidator
  \/ \E w \in 1..Len(pp.workers) : WorkerExit(w)

\* Most chunks a list of MaxProxies proxies is split into.
MaxChunks == (MaxProxies + PROXY_CHUNK_SIZE - 1) \div PROXY_CHUNK_SIZE

\* The validator with workers that may also exit.  Every started worker
\* eventually stops in one of the three ways, and the event loop runs every
\* continuation of processProxies that is ready.
FairSpecPool ==
  /\ InitPool
  /\ [][NextPool]_vars
  /\ \A w \in 1..MaxChunks : WF_vars(WorkerStops(w))
  /\ WF_vars(AllWorkersCompleted)
  /\ WF_vars(DeleteRows)
  /\ WF_vars(InsertResult)

\* Validation and assignment runs in any order, on short lists: proxy lists
\* that share proxies and change between runs, key files in which a key
\* repeats, with more keys than proxies and fewer.
PipelineProxyFiles ==
  {<<0>>, <<1, 2, 0>>, <<3, 0, 1>>, <<2, 3, 2, 1>>}

PipelineKeyFiles ==
  {<<"A", "B", "">>, <<"A", "", "A">>, <<"B", "C", "A">>}

InitPipeline ==
  /\ keys = <<>>
  /\ keys_proxies = <<>>
  /\ task_monitoring = <<>>
  /\ fail_tasks = <<>>
  /\ runPc = "idle"
  /\ runs = 0
  /\ keyProxyPairs = <<>>
  /\ launched = 0
  /\ clock = 0
  /\ wakeAt = 0
  /\ unit = [u \in Units |-> FreshUnit]
  /\ storeErrs = 0
  /\ StageAtRest
  /\ proxyFiles = PipelineProxyFiles
  /\ keyFiles = PipelineKeyFiles
  /\ stageRunsLeft = MaxStageRuns

NextPipeline ==
  \/ NextValidator
  \/ ProcessKeysStart
  \/ SaveMapping
  \/ SaveMappingErr
  \/ SaveFailedProxies

SpecPipeline == InitPipeline /\ [][NextPipeline]_vars

\* ------------------------------------------------------------------ claims
Count(calls, what) == Cardinality({i \in 1..Len(calls) : calls[i] = what})

\* Number of entries of fail_tasks.json for the pair.
FailRecords(kp) ==
  Cardinality({i \in 1..Len(fail_tasks) :
                 fail_tasks[i].key = kp.the_key /\ fail_tasks[i].proxy = kp.proxy})

Started(u) == u <= launched /\ unit[u].pc # "unstarted"

\* handleKeyProxyTask has returned or thrown.
Finished(u) == Started(u) /\ unit[u].pc \in {"rejected", "done"}

\* The unit went past the skip test into the attempt.
Attempted(u) == Started(u) /\ unit[u].calls # <<>>

\* C1. Idempotent skip: a unit started on a pair whose row is success or failed
\* calls neither login nor check, and the row keeps its state and point; in
\* every run.
C1_IdempotentSkip ==
  \A u \in Units :
    (Started(u) /\ unit[u].rowAtStart \in {"success", "failed"}) =>
      /\ Count(unit[u].calls, "login") = 0
      /\ Count(unit[u].calls, "check") = 0
      /\ PairRowState(task_monitoring, Pair(u)) = unit[u].rowAtStart
      /\ PairRowPoint(task_monitoring, Pair(u)) = unit[u].pointAtStart

\* A later run has finished the unit of a pair whose row was failed, and the
\* unit of a pair whose row was success with a point.
C1_Witness ==
  /\ runs = MaxRuns
  /\ \E u \in Units : Finished(u) /\ unit[u].rowAtStart = "failed"
  /\ \E u \in Units : Finished(u) /\ unit[u].rowAtStart = "success"
                                 /\ unit[u].pointAtStart = 37

\* C2. Terminal states are permanent, store errors or not: a row's state goes
\* only from pending to success or failed, and a row that is success or failed
\* is never written again.  (The original claim; the code violates it.)
C2_TerminalPermanent ==
  [][\A i \in 1..Len(task_monitoring) :
       /\ task_monitoring[i].state \in {"success", "failed"} =>
            task_monitoring'[i] = task_monitoring[i]
       /\ task_monitoring'[i].state \in {"pending", "success", "failed"}]_vars

\* The unit's login never answered true and the loop is over.
LoginExhausted(u) ==
  /\ Started(u)
  /\ unit[u].driver
  /\ ~unit[u].loginSuccess
  /\ unit[u].pc \in {"update", "log_failed", "finally", "rejected", "done"}

\* C3. Retry exhaustion: a pending pair whose login is false on every call gets
\* exactly MAX_LOGIN_RETRIES login calls and no check call; the task is set to
\* failed with point 0 and exactly one failure record is appended for the pair.
C3_RetryExhaustion ==
  \A u \in Units :
    LoginExhausted(u) =>
      /\ Count(unit[u].calls, "login") = MAX_LOGIN_RETRIES
      /\ Count(unit[u].calls, "check") = 0
      /\ unit[u].newState = "failed" /\ unit[u].point = 0
      /\ Finished(u) =>
           /\ PairRowState(task_monitoring, Pair(u)) = "failed"
           /\ PairRowPoint(task_monitoring, Pair(u)) = 0
           /\ FailRecords(Pair(u)) = 1
           /\ Count(unit[u].calls, "logFailedTask") = 1
      /\ ~Finished(u) => FailRecords(Pair(u)) <= 1

C3_Witness ==
  \E u \in Units :
    /\ LoginExhausted(u) /\ Finished(u)
    /\ unit[u].state = "pending"
    /\ Count(unit[u].calls, "login") = 2

\* The unit's login answered true and its check answered a number.
SucceededAfter(u, k) ==
  /\ Finished(u)
  /\ unit[u].loginSuccess
  /\ unit[u].loginAttempts = k - 1
  /\ unit[u].page.kind # "error"
  /\ unit[u].page.kind # "none"

\* C4. Success after retry: login fails k-1 times and succeeds on call k
\* (k <= MAX_LOGIN_RETRIES), check answers a number p: login was called exactly
\* k times, check once, the task is success with point p, and no failure record
\* is appended. In particular, success on call 2 of 2 and an element text of
\* "37" give point 37.
C4_SuccessAfterRetry ==
  \A u \in Units : \A k \in 1..(MAX_LOGIN_RETRIES + 1) :
    SucceededAfter(u, k) =>
      /\ k <= MAX_LOGIN_RETRIES
      /\ Count(unit[u].calls, "login") = k
      /\ Count(unit[u].calls, "check") = 1
      /\ PairRowState(task_monitoring, Pair(u)) = "success"
      /\ PairRowPoint(task_monitoring, Pair(u))
           = TokenPlugin_check("cntp", unit[u].page).n
      /\ unit[u].page.text = <<"3", "7">> =>
           PairRowPoint(task_monitoring, Pair(u)) = 37
      /\ FailRecords(Pair(u)) = 0
      /\ Count(unit[u].calls, "logFailedTask") = 0

C4_Witness ==
  \E u \in Units :
    /\ SucceededAfter(u, MAX_LOGIN_RETRIES)
    /\ unit[u].page.text = <<"3", "7">>
    /\ PairRowPoint(task_monitoring, Pair(u)) = 37

\* A text that is a decimal numeral: digits, with at most one fraction digit
\* after a point.
IsNumeral(t) ==
  /\ t # <<>>
  /\ \/ DigitRun(t) = t
     \/ /\ Len(t) >= 3
        /\ DigitRun(t) = SubSeq(t, 1, Len(t) - 2)
        /\ t[Len(t) - 1] = "."
        /\ t[Len(t)] \in Digits

\* Ten times the value of a numeral.
TenTimes(t) ==
  IF DigitRun(t) = t THEN 10 * Decimal(t)
  ELSE 10 * Decimal(SubSeq(t, 1, Len(t) - 2)) + DigitVal(t[Len(t)])

\* The unit made its check call and has finished.
Checked(u) == Finished(u) /\ unit[u].page.kind # "none"

\* C5 as stated: check false gives failed with point 0; any other result gives
\* success with the point equal to the numeric value of the element text, and 0
\* for a text that is not a number.
C5_Original ==
  \A u \in Units :
    Checked(u) =>
      LET t == getValueSafe(unit[u].page)
          p == PairRowPoint(task_monitoring, Pair(u))
      IN  IF unit[u].page.kind = "error"
          THEN PairRowState(task_monitoring, Pair(u)) = "failed" /\ p = 0
          ELSE /\ PairRowState(task_monitoring, Pair(u)) = "success"
               /\ IF IsNumeral(t) THEN 10 * p = TenTimes(t) ELSE p = 0

\* What the store is to hold for each element text: the integer at the start
\* of the text, 0 when the text does not start with one.
ExpectedPoint(t) ==
  CASE t = <<"3", "7">> -> 37
    [] t = <<"0">> -> 0
    [] t = <<"N", "/", "A">> -> 0
    [] t = <<"3", "7", ".", "5">> -> 37
    [] t = <<"7", "x">> -> 7

\* C5, amended. Check false gives failed with point 0; any other result gives
\* success, and the stored point is the integer that the text starts with
\* ("37.5" gives 37, "7x" gives 7), 0 when it starts with none ("N/A", or no
\* element).
C5_CheckResultMapping ==
  \A u \in Units :
    Checked(u) =>
      LET t == getValueSafe(unit[u].page)
          p == PairRowPoint(task_monitoring, Pair(u))
      IN  IF unit[u].page.kind = "error"
          THEN PairRowState(task_monitoring, Pair(u)) = "failed" /\ p = 0
          ELSE /\ PairRowState(task_monitoring, Pair(u)) = "success"
               /\ p = ExpectedPoint(t)

C5_Witness ==
  /\ \E u \in Units : Checked(u) /\ unit[u].page.text = <<"7", "x">>
                      /\ PairRowPoint(task_monitoring, Pair(u)) = 7
  /\ \E u \in Units : Checked(u) /\ unit[u].page.kind = "missing"
                      /\ PairRowState(task_monitoring, Pair(u)) = "success"

\* C6. Task-row uniqueness: with one orchestrator, after any runs and any
\* interleaving of a run's units, no two rows of task_monitoring have the same
\* (key_id, proxy, service).
C6_TaskRowUnique ==
  \A i, j \in 1..Len(task_monitoring) :
    (/\ task_monitoring[i].key_id = task_monitoring[j].key_id
     /\ task_monitoring[i].proxy = task_monitoring[j].proxy
     /\ task_monitoring[i].service = task_monitoring[j].service) => i = j

\* Every pair has its row and a later run has taken a unit past
\* initializeCNTPTask again.
C6_Witness ==
  /\ runs = MaxRuns
  /\ \A u \in Units : HasRow(task_monitoring, KeyOf(u), u)
  /\ \E u \in Units : Finished(u)

\* The unit went through the outer catch block.
Crashed(u) == Started(u) /\ Count(unit[u].calls, "handleCleanup") > 0

C8_SessionReset ==
  \A u \in Units :
    (Finished(u) /\ Attempted(u)) =>
      /\ unit[u].calls[Len(unit[u].calls)] = "tabReset"
      /\ Count(unit[u].calls, "tabReset") = 1

\* In one state: a unit that finished after a crash, and a unit that finished
\* after its login retries ran out.
C8_Witness ==
  /\ \E u \in Units : Finished(u) /\ Crashed(u)
  /\ \E u \in Units : Finished(u) /\ LoginExhausted(u)

\* C9. Staggered starts: units are started in listing order, and the i-th unit
\* not before STAGGER_DELAY after the (i-1)-th, hence not before
\* (i-1) * STAGGER_DELAY after the first.
C9_StaggeredStarts ==
  /\ \A u \in Units : unit[u].pc # "unstarted" => u <= launched
  /\ \A u \in 1..launched : unit[u].pc # "unstarted"
  /\ \A i \in 2..launched :
       /\ unit[i].startedAt >= unit[i - 1].startedAt + STAGGER_DELAY
       /\ unit[i].startedAt >= unit[1].startedAt + (i - 1) * STAGGER_DELAY

C9_Witness ==
  /\ launched = NPairs
  /\ launched >= 2
  /\ unit[launched].startedAt > unit[1].startedAt

\* The event loop runs every continuation that is ready, and timers fire.
FairSpec == Spec /\ WF_vars(Next)

\* C10. Failure isolation and batch completion: whichever units throw, every
\* listed pair's unit is started and runs to its end, run() does not reject,
\* and run() reaches its completion point, after all units have finished.
C10_BatchCompletes ==
  /\ [](runPc \in {"idle", "loading", "sleeping", "awaiting", "completed"})
  /\ [](runPc = "completed" =>
          /\ launched = Len(keyProxyPairs)
          /\ \A u \in 1..Len(keyProxyPairs) : unit[u].pc = "done")
  /\ (runPc = "loading") ~> (runPc = "completed")

\* A run completed in which one unit threw and another ended in success.
C10_Witness ==
  /\ runPc = "completed"
  /\ \E u, v \in 1..launched :
       /\ unit[u].logged
       /\ ~unit[v].logged /\ unit[v].newState = "success"

\* C17. Point invariant, with store statements that may fail: every row of
\* task_monitoring whose state is pending or failed has point 0, so a point
\* other than 0 is found only in rows whose state is success.
C17_PointInvariant ==
  \A i \in 1..Len(task_monitoring) :
    task_monitoring[i].state \in {"pending", "failed"} => task_monitoring[i].point = 0

\* A row that was success with point 37 has been written as failed (after a
\* state read that failed), next to a row that is success with a point.
C17_Witness ==
  /\ \E u \in Units :
       /\ Finished(u)
       /\ unit[u].rowAtStart = "success" /\ unit[u].pointAtStart = 37
       /\ PairRowState(task_monitoring, Pair(u)) = "failed"
  /\ \E i \in 1..Len(task_monitoring) :
       task_monitoring[i].state = "success" /\ task_monitoring[i].point # 0

\* Records of fail_tasks.json that this run wrote for the pair.
FailRecordsOfRun(kp) ==
  Cardinality({i \in 1..Len(fail_tasks) :
                 /\ fail_tasks[i].key = kp.the_key
                 /\ fail_tasks[i].proxy = kp.proxy
                 /\ fail_tasks[i].service = "cntp"
                 /\ fail_tasks[i].timestamp = runs})

\* The unit ended in a business failure: logins exhausted, or check was false.
BusinessFailure(u) == Finished(u) /\ unit[u].newState = "failed"

\* C18. The failure log is append-only under concurrency: a finished unit has
\* appended exactly one record {key, proxy, service, timestamp} when it ended
\* in a business failure and none when it ended in success, a skip or a fatal
\* error; and every step leaves the records already written in place, in
\* order and unaltered, whichever units are in flight.
C18_FailureLogAppendOnly ==
  /\ [](\A u \in Units :
         Finished(u) =>
           /\ Count(unit[u].calls, "logFailedTask") = IF BusinessFailure(u) THEN 1 ELSE 0
           /\ FailRecordsOfRun(Pair(u)) = IF BusinessFailure(u) THEN 1 ELSE 0)
  /\ [][/\ Len(fail_tasks') >= Len(fail_tasks)
        /\ SubSeq(fail_tasks', 1, Len(fail_tasks)) = fail_tasks]_vars

\* Two units of one run are in flight at once, each has written its record,
\* and the log holds both.
C18_Witness ==
  \E u1, u2 \in Units :
    /\ u1 # u2
    /\ unit[u1].pc = "finally" /\ unit[u2].pc = "finally"
    /\ Count(unit[u1].calls, "logFailedTask") = 1
    /\ Count(unit[u2].calls, "logFailedTask") = 1
    /\ FailRecordsOfRun(Pair(u1)) = 1 /\ FailRecordsOfRun(Pair(u2)) = 1
    /\ Len(fail_tasks) = 2

\* The unit is inside initializeCNTPTask.
InEnsure(u) == unit[u].pc \in {"ensure_get", "ensure_insert"}

\* C19. initializeCNTPTask is idempotent, with store statements that may fail:
\* the call changes task_monitoring only by appending one row with state
\* pending, retry_count 0 and point 0 for its pair, and only when the pair had
\* no row; with a row present the table is left as it is; a statement that
\* fails changes nothing; and in each case the call returns to
\* handleKeyProxyTask, which goes on to read the state.
C19_EnsureTaskIdempotent ==
  [][\A u \in Units :
       (InEnsure(u) /\ unit'[u].pc # unit[u].pc) =>
         LET kp  == Pair(u)
             had == HasRow(task_monitoring, kp.id, kp.proxy)
         IN  /\ unit'[u].pc \in {"ensure_insert", "get_state"}
             /\ unit'[u].pc = "ensure_insert" => ~had /\ task_monitoring' = task_monitoring
             /\ had => task_monitoring' = task_monitoring
             /\ storeErrs' # storeErrs => task_monitoring' = task_monitoring
             /\ (~had /\ unit'[u].pc = "get_state" /\ storeErrs' = storeErrs) =>
                  task_monitoring' = Append(task_monitoring,
                    [key_id |-> kp.id, proxy |-> kp.proxy, service |-> "cntp",
                     state |-> "pending", retry_count |-> 0, point |-> 0])]_vars

\* In a second run the call has returned for a pair whose row was success with
\* a point, and for a pair whose INSERT had failed in the first run.
C19_Witness ==
  /\ runs = MaxRuns
  /\ storeErrs = MaxStoreErrs
  /\ \E u \in Units :
       /\ unit[u].pc = "get_state"
       /\ unit[u].rowAtStart = "success" /\ unit[u].pointAtStart = 37
       /\ PairRowState(task_monitoring, Pair(u)) = "success"
       /\ PairRowPoint(task_monitoring, Pair(u)) = 37
  /\ \E u \in Units :
       /\ unit[u].pc = "get_state"
       /\ unit[u].rowAtStart = "none"
       /\ PairRowState(task_monitoring, Pair(u)) = "pending"

\* ------------------------------------------------ claims on proxy_handler
\* How many entries of a sequence of results or rows are for proxy p.
Times(entries, p) == Cardinality({i \in 1..Len(entries) : entries[i].proxy = p})

\* How many times proxy p is in a list of proxies.
TimesListed(list, p) == Cardinality({i \in 1..Len(list) : list[i] = p})

ProxyNames == 1..MaxProxies

\* Every worker of the call has replied and Promise.all has fulfilled.
AllReplied ==
  /\ pp.pc \in {"delete", "insert", "saved", "aborted"}
  /\ \A w \in 1..Len(pp.workers) : pp.workers[w].state = "replied"

\* C11. Validator fan-out and fan-in: for N input proxies and chunk size 10,
\* ceil(N/10) workers are dispatched, one per chunk; every chunk has 10 proxies
\* except the last, which has N mod 10 when that is not 0; and once all workers
\* have replied the combined result has N entries, each input proxy as many
\* times as it is in the input.
C11_FanOutFanIn ==
  pp.pc # "idle" =>
    LET N == Len(pp.proxyList)
        chunks == (N + 9) \div 10
    IN  /\ PROXY_CHUNK_SIZE = 10
        /\ Len(pp.proxyChunks) = chunks
        /\ Len(pp.workers) = chunks
        /\ \A w \in 1..chunks :
             Len(pp.proxyChunks[w]) =
               IF w < chunks \/ N % 10 = 0 THEN 10 ELSE N % 10
        /\ AllReplied =>
             /\ Len(pp.combinedResults) = N
             /\ \A p \in ProxyNames :
                  Times(pp.combinedResults, p) = TimesListed(pp.proxyList, p)

\* A list of more than two chunks with a rest has been probed and saved:
\* three workers, the last with fewer than 10 proxies.
C11_Witness ==
  /\ pp.pc = "saved"
  /\ Len(pp.proxyList) > 2 * PROXY_CHUNK_SIZE
  /\ Len(pp.proxyList) % PROXY_CHUNK_SIZE # 0
  /\ Len(pp.workers) = 3
  /\ Len(pp.combinedResults) = Len(pp.proxyList)

\* C12. A pool failure leaves the store as it was: filtered_proxies changes
\* only in the delete and insert steps of processProxies, which are reached
\* only with every chunk's worker having replied; while the call waits for its
\* workers, and in the step in which a worker raises an error and the call
\* aborts, the table is not touched.
C12_PoolFailureKeepsStore ==
  [][/\ filtered_proxies' # filtered_proxies =>
          /\ pp.pc \in {"delete", "insert"}
          /\ \A w \in 1..Len(pp.workers) : pp.workers[w].state = "replied"
     /\ pp'.pc \in {"delete", "insert"} =>
          \A w \in 1..Len(pp'.workers) : pp'.workers[w].state = "replied"
     /\ (\E w \in 1..Len(pp'.workers) : pp'.workers[w].state = "errored") =>
          /\ pp'.pc = "aborted"
          /\ filtered_proxies' = filtered_proxies]_vars

\* A call has aborted on a worker's error, after another worker had replied,
\* and the rows of the earlier call are in the table.
C12_Witness ==
  /\ pp.pc = "aborted"
  /\ \E w \in 1..Len(pp.workers) : pp.workers[w].state = "errored"
  /\ \E w \in 1..Len(pp.workers) : pp.workers[w].state = "replied"
  /\ Len(filtered_proxies) > PROXY_CHUNK_SIZE

\* C13. Probe classification: a worker that has replied has one answer and one
\* result per proxy of its chunk, in order; the result has the tag cntp in
\* success when the answer was a response with status 200 and in fail for any
\* other answer, never in both and never in neither; and a worker is not in
\* error because of a probe that failed.
C13_ProbeClassification ==
  \A w \in 1..Len(pp.workers) :
    LET worker == pp.workers[w]
        chunk  == pp.proxyChunks[w]
    IN  /\ worker.state = "replied" =>
             /\ Len(worker.answers) = Len(chunk)
             /\ Len(worker.results) = Len(chunk)
             /\ \A i \in 1..Len(chunk) :
                  LET ok == ~worker.answers[i].error /\ worker.answers[i].statusCode = 200
                  IN  /\ worker.results[i].proxy = chunk[i]
                      /\ worker.results[i].success = IF ok THEN <<"cntp">> ELSE <<>>
                      /\ worker.results[i].fail = IF ok THEN <<>> ELSE <<"cntp">>
        /\ worker.state = "errored" => worker.answers = <<>>

\* A call has saved its results although a probe was answered with a status
\* other than 200 that is no error: the proxy's row carries the fail tag.
C13_Witness ==
  /\ pp.pc = "saved"
  /\ \E w \in 1..Len(pp.workers) : \E i \in 1..Len(pp.workers[w].answers) :
       /\ pp.workers[w].answers[i] = [error |-> FALSE, statusCode |-> 204]
       /\ \E r \in 1..Len(filtered_proxies) :
            /\ filtered_proxies[r].proxy = pp.proxyChunks[w][i]
            /\ filtered_proxies[r].fail = "[\"cntp\"]"
            /\ filtered_proxies[r].success = "[]"

\* The last result of the call for proxy p.
LastResult(p) ==
  LET last == CHOOSE i \in 1..Len(pp.combinedResults) :
                /\ pp.combinedResults[i].proxy = p
                /\ \A j \in (i + 1)..Len(pp.combinedResults) :
                     pp.combinedResults[j].proxy # p
  IN  pp.combinedResults[last]

\* C20. Truncate and rebuild: when a call of processProxies has saved its
\* results (all workers replied, all writes succeeded), filtered_proxies has
\* one row for each proxy of the call's input and no other row, whatever an
\* earlier call left in the table; the row carries the tags of the call's
\* (last) result for the proxy.
C20_TruncateAndRebuild ==
  pp.pc = "saved" =>
    /\ \A p \in ProxyNames :
         Times(filtered_proxies, p) = IF TimesListed(pp.proxyList, p) > 0 THEN 1 ELSE 0
    /\ \A r \in 1..Len(filtered_proxies) :
         LET row == filtered_proxies[r]
         IN  /\ row.proxy \in ProxyNames
             /\ TimesListed(pp.proxyList, row.proxy) > 0
             /\ JSON_parse(row.success) = LastResult(row.proxy).success
             /\ JSON_parse(row.fail) = LastResult(row.proxy).fail

\* A second call has saved a list in which a proxy repeats, one of whose
\* probes failed, after its DELETE removed rows of proxies it did not probe.
C20_Witness ==
  /\ pp.pc = "saved"
  /\ pp.stale
  /\ \E p \in ProxyNames : TimesListed(pp.proxyList, p) > 1
  /\ \E r \in 1..Len(filtered_proxies) : filtered_proxies[r].fail = "[\"cntp\"]"

C15_ProxyExclusive ==
  /\ [](\A p \in ProxyNames : Times(keys_proxies, p) <= 1)
  /\ [][/\ Len(keys_proxies') >= Len(keys_proxies)
        /\ SubSeq(keys_proxies', 1, Len(keys_proxies)) = keys_proxies]_vars

\* An assignment run has completed that assigned a proxy to one key while the
\* store holds the proxy's row under another key, from an earlier run.
C15_Witness ==
  /\ pk.pc = "done"
  /\ \E i \in 1..Len(pk.keysWithProxies) :
       \E a \in 1..Len(pk.keysWithProxies[i].proxies) :
         \E r \in 1..Len(keys_proxies) :
           /\ keys_proxies[r].proxy = pk.keysWithProxies[i].proxies[a].proxy
           /\ keys_proxies[r].key_id # KeyId(keys, pk.keysWithProxies[i].key)

\* C16. Per-key bound: after any sequence of assignment runs, each key has at
\* most one row in keys_proxies, so loadKeyProxyData lists at most one pair
\* per key.  (The original claim; the code violates it.)
C16_PerCredentialBound ==
  \A k \in 1..Len(keys) :
    /\ Cardinality({r \in 1..Len(keys_proxies) : keys_proxies[r].key_id = keys[k].id}) <= 1
    /\ LET Own(pair) == pair.id = keys[k].id
       IN  Len(SelectSeq(JoinRows(keys, keys_proxies), Own)) <= 1

\* ---------------------------------------------- further claims on run()
\* The unit's promise was rejected (tabReset threw) and run() logged it.
Rejected(u) == Started(u) /\ unit[u].logged

\* C21. Run postcondition, store errors or not: when run() has completed,
\* every listed pair has exactly one row in task_monitoring; and every pair
\* whose unit finished without an error (neither the outer catch block nor a
\* rejection) has a row that is success or failed and that matches what the
\* unit observed: the state and point it decided to write, or the terminal
\* state it read.  (The original claim; the code violates it.)
C21_RunPostcondition ==
  runPc = "completed" =>
    /\ \A i \in 1..Len(keyProxyPairs) :
         Len(MatchingRows(task_monitoring, keyProxyPairs[i].id, keyProxyPairs[i].proxy)) = 1
    /\ \A u \in 1..launched :
         (~Crashed(u) /\ ~Rejected(u)) =>
           /\ PairRowState(task_monitoring, Pair(u)) \in {"success", "failed"}
           /\ IF Attempted(u)
              THEN /\ PairRowState(task_monitoring, Pair(u)) = unit[u].newState
                   /\ PairRowPoint(task_monitoring, Pair(u)) = unit[u].point
              ELSE PairRowState(task_monitoring, Pair(u)) = unit[u].state

\* Positions of the calls of one kind in a unit's history.
Positions(calls, what) == {i \in 1..Len(calls) : calls[i] = what}

\* The calls of the unit are in the order login* check? update?.
CallsInOrder(calls) ==
  /\ Count(calls, "check") <= 1
  /\ Count(calls, "update") <= 1
  /\ \A c \in Positions(calls, "check") :
       /\ c > 1 /\ calls[c - 1] = "login"
       /\ \A l \in Positions(calls, "login") : l < c
  /\ \A w \in Positions(calls, "update") :
       \A j \in Positions(calls, "login") \cup Positions(calls, "check") : j < w

\* C22. Strict order within a pair: check is called only right after a login
\* call that returned true, at most once, and no login call follows it; the
\* state write returns only after the last login or check call, no login or
\* check call is made while a write is pending, and a unit issues at most one
\* write.
C22_StrictOrder ==
  /\ [](\A u \in Units :
         /\ CallsInOrder(unit[u].calls)
         /\ unit[u].pc = "update" => Count(unit[u].calls, "update") = 0)
  /\ [][\A u \in Units :
         /\ Count(unit'[u].calls, "check") > Count(unit[u].calls, "check") =>
              unit[u].loginSuccess /\ unit[u].pc = "check"
         /\ unit[u].pc = "update" =>
              /\ Count(unit'[u].calls, "login") = Count(unit[u].calls, "login")
              /\ Count(unit'[u].calls, "check") = Count(unit[u].calls, "check")]_vars

\* A unit has finished after a failed login, a login that answered true, the
\* check and the write.
C22_Witness ==
  \E u \in Units :
    /\ Finished(u)
    /\ unit[u].loginSuccess
    /\ unit[u].calls =
         <<"initializeDriver", "login", "login", "check", "update", "tabReset">>

\* The unit's while loop of lines 100-110 is over.
LoginLoopOver(u) ==
  /\ Started(u)
  /\ unit[u].driver
  /\ unit[u].pc \in {"check", "update", "log_failed", "finally", "rejected", "done"}

\* C23 as first stated: every finished unit of a pair that was pending when the
\* unit started has called login at least once and at most MAX_LOGIN_RETRIES
\* times.  (A unit whose initializeDriver throws calls login zero times.)
C23_Original ==
  \A u \in Units :
    (Finished(u) /\ unit[u].rowAtStart = "pending") =>
      /\ Count(unit[u].calls, "login") >= 1
      /\ Count(unit[u].calls, "login") <= MAX_LOGIN_RETRIES

\* C23. Per-run retry budget, store errors or not: in every run a unit never
\* calls login more than MAX_LOGIN_RETRIES times; a unit whose session was built
\* calls login at least once, and exactly MAX_LOGIN_RETRIES times when no call
\* returned true, whatever earlier runs did for the pair (a crash, or attempts
\* whose state write failed); a unit without a session calls login zero times.
C23_PerRunBudget ==
  \A u \in Units :
    Started(u) =>
      /\ Count(unit[u].calls, "login") <= MAX_LOGIN_RETRIES
      /\ LoginLoopOver(u) =>
           /\ Count(unit[u].calls, "login") >= 1
           /\ ~unit[u].loginSuccess =>
                Count(unit[u].calls, "login") = MAX_LOGIN_RETRIES
      /\ ~unit[u].driver => Count(unit[u].calls, "login") = 0

\* In a second run, a pair whose unit crashed in the first run and a pair that
\* the first run left pending after its login attempts (the state write
\* failed) have both used the full budget again.
C23_Witness ==
  /\ runs = 2
  /\ \E u \in Units :
       /\ unit[u].prevFatal
       /\ unit[u].rowAtStart = "pending"
       /\ LoginExhausted(u)
       /\ Count(unit[u].calls, "login") = MAX_LOGIN_RETRIES
  /\ \E u \in Units :
       /\ ~unit[u].prevFatal
       /\ unit[u].rowAtStart = "pending"
       /\ LoginExhausted(u)
       /\ Count(unit[u].calls, "login") = MAX_LOGIN_RETRIES

\* handleKeyProxyTask was called for the unit and has neither returned nor thrown.
InFlight(u) == Started(u) /\ ~Finished(u)

\* C24. Only the start rate is throttled: once the stagger delay is over the
\* loop can go on whatever the started units are doing, and a turn of the loop
\* changes no started unit; the joint wait begins only after the last pair was
\* started, and it ends only when every started unit has settled.
C24_OnlyStartRateThrottled ==
  /\ [](/\ (runPc = "sleeping" /\ clock >= wakeAt) => ENABLED TimerFires
        /\ runPc \in {"awaiting", "completed"} => launched = Len(keyProxyPairs)
        /\ runPc = "completed" => \A u \in 1..launched : unit[u].pc = "done")
  /\ [][launched' = launched + 1 =>
          /\ runPc' = "sleeping"
          /\ \A u \in 1..launched : unit'[u] = unit[u]]_vars

\* Every listed pair's unit is in flight at the same time, the first one still
\* at its first statement.
C24_Witness ==
  /\ Len(keyProxyPairs) = NPairs
  /\ launched = NPairs
  /\ \A u \in 1..NPairs : InFlight(u)
  /\ unit[1].pc = "ensure_get"

\* C26. The stored retry_count is never written after insertion: in every
\* reachable state, store errors or not, every task row has retry_count = 0,
\* however many login attempts were made for it in any run.
C26_RetryCountZero ==
  \A i \in 1..Len(task_monitoring) : task_monitoring[i].retry_count = 0

\* A pair's row was written as failed after MAX_LOGIN_RETRIES failed login
\* calls of this run.
C26_Witness ==
  \E u \in Units :
    /\ Finished(u)
    /\ LoginExhausted(u)
    /\ Count(unit[u].calls, "login") = MAX_LOGIN_RETRIES
    /\ PairRowState(task_monitoring, Pair(u)) = "failed"
    /\ FirstRow(task_monitoring, Pair(u).id, Pair(u).proxy).retry_count = 0

\* C27. The failure log and the store agree, store errors or not: whenever
\* fail_tasks.json holds a record for a (key, proxy) pair, the pair's task row
\* exists and is failed; no record is written for a pair whose row is still
\* pending or is success.  (The original claim; the code violates it.)
C27_FailureLogAgreesWithStore ==
  \A i \in 1..Len(fail_tasks) :
    \A k \in 1..Len(keys) :
      keys[k].the_key = fail_tasks[i].key =>
        /\ HasRow(task_monitoring, keys[k].id, fail_tasks[i].proxy)
        /\ FirstRow(task_monitoring, keys[k].id, fail_tasks[i].proxy).state = "failed"

\* ------------------------------------- further claims on the proxy stages
\* The stored row carries at least one fail tag.
HasFailTag(row) == row.fail \notin {"", "[]"}

\* Rows of filtered_proxies for the proxy that carry a fail tag.
FailedRows(p) ==
  {r \in 1..Len(filtered_proxies) :
     filtered_proxies[r].proxy = p /\ HasFailTag(filtered_proxies[r])}

\* C25. Failed proxies are reported, not excluded: an assignment run gives the
\* i-th key the i-th stored candidate whatever its tags, as long as candidates
\* are left; and the report it writes lists exactly the stored candidates with
\* at least one fail tag, each once, in the order of the store.
C25_ReportedNotExcluded ==
  [][(pk.pc = "report" /\ pk'.pc = "done") =>
       /\ \A i \in 1..Len(pk.keys) :
            i <= Len(filtered_proxies) =>
              pk.keysWithProxies[i].proxies = <<[proxy |-> filtered_proxies[i].proxy]>>
       /\ \A p \in ProxyNames :
            TimesListed(failed_proxies', p) = Cardinality(FailedRows(p))
       /\ \A a, b \in 1..Len(failed_proxies') :
            a < b => \E r, t \in 1..Len(filtered_proxies) :
                       /\ r < t
                       /\ filtered_proxies[r].proxy = failed_proxies'[a]
                       /\ filtered_proxies[t].proxy = failed_proxies'[b]]_vars

\* An assignment run has completed in which a key got a proxy whose only probe
\* failed, which the report lists, while a candidate without a fail tag is not
\* in the report.
C25_Witness ==
  /\ pk.pc = "done"
  /\ \E i \in 1..Len(pk.keysWithProxies) :
       /\ pk.keysWithProxies[i].proxies # <<>>
       /\ pk.proxyList[i].success = <<>>
       /\ pk.proxyList[i].fail # <<>>
       /\ TimesListed(failed_proxies, pk.keysWithProxies[i].proxies[1].proxy) = 1
  /\ \E j \in 1..Len(pk.proxyList) :
       /\ pk.proxyList[j].fail = <<>>
       /\ TimesListed(failed_proxies, pk.proxyList[j].proxy) = 0

\* Rows of a keys_proxies table that bind the proxy to the key with this value.
BoundUnder(ks, kps, theKey, p) ==
  {r \in 1..Len(kps) :
     /\ kps[r].proxy = p
     /\ \E k \in 1..Len(ks) : ks[k].the_key = theKey /\ ks[k].id = kps[r].key_id}

\* Rows of a keys_proxies table for the proxy.
RowsOf(kps, p) == {r \in 1..Len(kps) : kps[r].proxy = p}

\* C28 as first stated: after an assignment run has completed, every
\* (key, proxy) binding returned by assignProxiesToKeys is in keys_proxies
\* under that key's id.  (A proxy that an earlier run bound to another key
\* keeps its row.)
C28_Original ==
  pk.pc = "done" =>
    \A i \in 1..Len(pk.keysWithProxies) :
      \A a \in 1..Len(pk.keysWithProxies[i].proxies) :
        BoundUnder(keys, keys_proxies, pk.keysWithProxies[i].key,
                   pk.keysWithProxies[i].proxies[a].proxy) # {}

\* C28. The persisted assignment, also when the store held bindings before:
\* after an assignment run has completed, the proxy of every binding returned
\* by assignProxiesToKeys has a row in keys_proxies; saving a binding whose
\* proxy had no row adds the row under the id of the binding's key, and saving
\* one whose proxy had a row leaves that row as it was.
C28_PersistedAssignment ==
  /\ [](pk.pc = "done" =>
          \A i \in 1..Len(pk.keysWithProxies) :
            \A a \in 1..Len(pk.keysWithProxies[i].proxies) :
              RowsOf(keys_proxies, pk.keysWithProxies[i].proxies[a].proxy) # {})
  /\ [][(pk.pc = "saving" /\ pk'.next = pk.next + 1) =>
          LET k == pk.keysWithProxies[pk.next]
          IN  \A a \in 1..Len(k.proxies) :
                LET p == k.proxies[a].proxy
                IN  IF RowsOf(keys_proxies, p) = {}
                    THEN /\ Cardinality(RowsOf(keys_proxies', p)) = 1
                         /\ BoundUnder(keys', keys_proxies', k.key, p) # {}
                    ELSE /\ RowsOf(keys_proxies', p) = RowsOf(keys_proxies, p)
                         /\ \A r \in RowsOf(keys_proxies, p) :
                              keys_proxies'[r] = keys_proxies[r]]_vars

\* An assignment run has completed on a store that held bindings: one of its
\* bindings is stored under its key, another one's proxy is still bound to the
\* key an earlier run gave it to.
C28_Witness ==
  /\ pk.pc = "done"
  /\ \E i, j \in 1..Len(pk.keysWithProxies) :
       /\ pk.keysWithProxies[i].proxies # <<>>
       /\ pk.keysWithProxies[j].proxies # <<>>
       /\ BoundUnder(keys, keys_proxies, pk.keysWithProxies[i].key,
                     pk.keysWithProxies[i].proxies[1].proxy) # {}
       /\ BoundUnder(keys, keys_proxies, pk.keysWithProxies[j].key,
                     pk.keysWithProxies[j].proxies[1].proxy) = {}
       /\ RowsOf(keys_proxies, pk.keysWithProxies[j].proxies[1].proxy) # {}

\* C29. The validator pool terminates: when every worker eventually replies,
\* raises an error or exits, a call of processProxies that waits for its
\* workers eventually has written the combined results or has aborted.  (The
\* original claim; the code violates it.)
C29_PoolTerminates ==
  (pp.pc = "waiting") ~> (pp.pc \in {"saved", "aborted"})
====
